---- MODULE Spec2Model ----
(***************************************************************************)
(* Threshold multisig transaction core (rust-core/src/lib.rs).             *)
(*                                                                         *)
(* Transactions are modelled in their deserialized form: records with the  *)
(* fields of the Rust structs.  Vectors are sequences; spend indices are   *)
(* 0-based as in the source, so spend i is tx.spends[i + 1].               *)
(* u64 values are scaled down to ValueBits bits, keeping wrap-around.      *)
(***************************************************************************)
EXTENDS Integers, Sequences, FiniteSets, TLC

(* ------------------------------ bounds --------------------------------- *)
\* width of a value (u64 in the source, scaled down)
ValueBits == 3
\* at most this many notes (spends) in a transaction
MaxNotes == 2
\* at most this many outputs in a transaction
MaxOutputs == 3
\* at most this many entries in a condition's pubkeys
MaxKeys == 2
\* largest threshold tried
MaxThreshold == 3

Modulus == 2 ^ ValueBits
MaxValue == Modulus - 1

(* --------------------------- Result<T, String> -------------------------- *)
Ok(v) == [tag |-> "Ok", val |-> v]
Err(e) == [tag |-> "Err", err |-> e]
\* an arithmetic-overflow panic (builds with overflow checks enabled)
Panic(m) == [tag |-> "Panic", msg |-> m]
Unit == "()"

(* ---------------------------- error messages ---------------------------- *)
InvalidThreshold == "Threshold must be >= 1"
ThresholdExceedsKeys == "Threshold exceeds number of pubkeys"
DuplicatePublicKey == "Duplicate public key in multisig set"
BalanceMismatch == "Input value does not equal output value"
InsufficientSignatures(i) == "Spend " \o ToString(i) \o " has insufficient signatures"
InvalidSigner(i) == "Spend " \o ToString(i) \o " has invalid signer"
SpendIndexOutOfBounds == "Spend index out of bounds"
InvalidSpendIndex == "Invalid spend index"
UnauthorizedSigner == "Public key not allowed for this spend"
ReadyForBroadcast == "Transaction is valid and ready for broadcast"
AddOverflow == "attempt to add with overflow"

(* ------------------------------ Core types ------------------------------ *)
\* SHA-256 rendered in hex, taken as injective on the encoded bytes
Sha256Hex(bytes) == <<"sha256", bytes>>

PkhCondition(t, pks) == [threshold |-> t, pubkeys |-> pks]
Lock(c) == [pkh |-> c]
NoteName(f, l) == [first |-> f, last |-> l]
Note(n, v, l) == [name |-> n, value |-> v, lock |-> l]
Output(r, v, l) == [recipient |-> r, value |-> v, lock |-> l]
Seeds_new(h) == [message_hash |-> h, signatures |-> <<>>]
Spend(n, s) == [note |-> n, seeds |-> s]
Transaction(s, o) == [spends |-> s, outputs |-> o]

(* ------------------------- PkhCondition::validate ----------------------- *)
\* the HashSet loop: TRUE iff some insert finds the key already present
RECURSIVE InsertFindsDuplicate(_, _, _)
InsertFindsDuplicate(pubkeys, k, set) ==
  IF k > Len(pubkeys) THEN FALSE
  ELSE IF pubkeys[k] \in set THEN TRUE
  ELSE InsertFindsDuplicate(pubkeys, k + 1, set \cup {pubkeys[k]})

\* mutant: a threshold equal to the number of keys is refused
PkhCondition_validate_strict(pkh) ==
  IF pkh.threshold = 0 THEN Err(InvalidThreshold)
  ELSE IF pkh.threshold >= Len(pkh.pubkeys) THEN Err(ThresholdExceedsKeys)
  ELSE IF InsertFindsDuplicate(pkh.pubkeys, 1, {}) THEN Err(DuplicatePublicKey)
  ELSE Ok(Unit)

PkhCondition_validate(pkh) ==
  IF pkh.threshold = 0 THEN Err(InvalidThreshold)
  ELSE IF pkh.threshold > Len(pkh.pubkeys) THEN Err(ThresholdExceedsKeys)
  ELSE IF InsertFindsDuplicate(pkh.pubkeys, 1, {}) THEN Err(DuplicatePublicKey)
  ELSE Ok(Unit)

(* --------------------------------- Seeds -------------------------------- *)
\* mutant: the record's hash is recomputed over the signed record
Seeds_add_signature_rehash(seeds, pubkey, signature) ==
  [message_hash |-> Sha256Hex(<<seeds.message_hash, pubkey, signature>>),
   signatures |->
     Append(SelectSeq(seeds.signatures, LAMBDA e : e[1] # pubkey), <<pubkey, signature>>)]

\* mutant: pushes the entry without removing an earlier one for the key
Seeds_add_signature_push(seeds, pubkey, signature) ==
  [seeds EXCEPT !.signatures = Append(@, <<pubkey, signature>>)]

\* mutant: an existing entry of the key is overwritten where it stands
Seeds_add_signature_in_place(seeds, pubkey, signature) ==
  IF \E k \in 1..Len(seeds.signatures) : seeds.signatures[k][1] = pubkey
  THEN [seeds EXCEPT !.signatures =
          [k \in 1..Len(@) |->
             IF @[k][1] = pubkey THEN <<pubkey, signature>> ELSE @[k]]]
  ELSE [seeds EXCEPT !.signatures = Append(@, <<pubkey, signature>>)]

Seeds_add_signature(seeds, pubkey, signature) ==
  [seeds EXCEPT !.signatures =
     Append(SelectSeq(@, LAMBDA e : e[1] # pubkey), <<pubkey, signature>>)]

signature_count(seeds) == Len(seeds.signatures)

has_signature(seeds, pubkey) ==
  \E k \in 1..Len(seeds.signatures) : seeds.signatures[k][1] = pubkey

(* ------------------------------- state ---------------------------------- *)
VARIABLES
  overflowChecks, \* build profile: TRUE if integer overflow panics, FALSE if it wraps
  notes,          \* the caller's candidate notes (argument of build_transaction)
  outputs,        \* the caller's candidate outputs (argument of build_transaction)
  hasTx,          \* TRUE once the caller holds a transaction
  tx,             \* the transaction the caller holds (passed as tx_json)
  last            \* the last call: its name, arguments and result

vars == <<overflowChecks, notes, outputs, hasTx, tx, last>>

(* --------------------------- Transaction model -------------------------- *)
\* Iterator::sum over u64: the wrapped sum and whether an addition overflowed
RECURSIVE SumU64(_, _, _)
SumU64(values, k, acc) ==
  IF k > Len(values) THEN acc
  ELSE SumU64(values, k + 1,
              [value |-> (acc.value + values[k]) % Modulus,
               overflow |-> acc.overflow \/ acc.value + values[k] >= Modulus])

total_input(t) ==
  SumU64([k \in 1..Len(t.spends) |-> t.spends[k].note.value], 1,
         [value |-> 0, overflow |-> FALSE])

total_output(t) ==
  SumU64([k \in 1..Len(t.outputs) |-> t.outputs[k].value], 1,
         [value |-> 0, overflow |-> FALSE])

validate_balance(t) ==
  IF overflowChecks /\ (total_input(t).overflow \/ total_output(t).overflow)
  THEN Panic(AddOverflow)
  ELSE IF total_input(t).value # total_output(t).value THEN Err(BalanceMismatch)
  ELSE Ok(Unit)

\* mutant: the signers are checked before the signature count
CheckSpend_signers_first(i, spend) ==
  LET pkh == spend.note.lock.pkh IN
  IF PkhCondition_validate(pkh).tag # "Ok" THEN PkhCondition_validate(pkh)
  ELSE IF \E k \in 1..Len(spend.seeds.signatures) :
            \A j \in 1..Len(pkh.pubkeys) : pkh.pubkeys[j] # spend.seeds.signatures[k][1]
       THEN Err(InvalidSigner(i))
  ELSE IF signature_count(spend.seeds) < pkh.threshold THEN Err(InsufficientSignatures(i))
  ELSE Ok(Unit)

\* the checks of one spend, in the order of the loop body
CheckSpend(i, spend) ==
  LET pkh == spend.note.lock.pkh IN
  IF PkhCondition_validate(pkh).tag # "Ok" THEN PkhCondition_validate(pkh)
  ELSE IF signature_count(spend.seeds) < pkh.threshold THEN Err(InsufficientSignatures(i))
  ELSE IF \E k \in 1..Len(spend.seeds.signatures) :
            \A j \in 1..Len(pkh.pubkeys) : pkh.pubkeys[j] # spend.seeds.signatures[k][1]
       THEN Err(InvalidSigner(i))
  ELSE Ok(Unit)

RECURSIVE ValidateSignaturesFrom(_, _)
ValidateSignaturesFrom(t, i) ==
  IF i >= Len(t.spends) THEN Ok(Unit)
  ELSE IF CheckSpend(i, t.spends[i + 1]).tag # "Ok" THEN CheckSpend(i, t.spends[i + 1])
  ELSE ValidateSignaturesFrom(t, i + 1)

validate_signatures(t) == ValidateSignaturesFrom(t, 0)

(* -------------------------- Deterministic hashing ----------------------- *)
SigningPayload(spend_index, transaction) ==
  [spend_index |-> spend_index, transaction |-> transaction]

\* mutant: only the first spend's signature list is cleared
ClearSignatures_first_only(t) ==
  [t EXCEPT !.spends =
     [k \in 1..Len(t.spends) |->
        IF k = 1 THEN [t.spends[k] EXCEPT !.seeds.signatures = <<>>]
        ELSE t.spends[k]]]

ClearSignatures(t) ==
  [t EXCEPT !.spends =
     [k \in 1..Len(t.spends) |-> [t.spends[k] EXCEPT !.seeds.signatures = <<>>]]]

compute_spend_hash(spend_index, t) ==
  Sha256Hex(SigningPayload(spend_index, ClearSignatures(t)))

(* ------------------------------ Signing status -------------------------- *)
SigningStatus(i, th, s, p, c) ==
  [spend_index |-> i, threshold |-> th, signed |-> s, pending |-> p, complete |-> c]

\* the loop over pkh.pubkeys: pushes each key to signed or to pending
RECURSIVE PartitionKeys(_, _, _, _, _)
PartitionKeys(seeds, pubkeys, k, signed, pending) ==
  IF k > Len(pubkeys) THEN [signed |-> signed, pending |-> pending]
  ELSE IF has_signature(seeds, pubkeys[k])
       THEN PartitionKeys(seeds, pubkeys, k + 1, Append(signed, pubkeys[k]), pending)
       ELSE PartitionKeys(seeds, pubkeys, k + 1, signed, Append(pending, pubkeys[k]))

\* mutant: complete is taken from the number of recorded signatures
signing_status_by_count(spend_index, t) ==
  LET spend == t.spends[spend_index + 1]
      pkh == spend.note.lock.pkh
      part == PartitionKeys(spend.seeds, pkh.pubkeys, 1, <<>>, <<>>)
  IN SigningStatus(spend_index, pkh.threshold, part.signed, part.pending,
                   signature_count(spend.seeds) >= pkh.threshold)

signing_status(spend_index, t) ==
  LET spend == t.spends[spend_index + 1]
      pkh == spend.note.lock.pkh
      part == PartitionKeys(spend.seeds, pkh.pubkeys, 1, <<>>, <<>>)
  IN SigningStatus(spend_index, pkh.threshold, part.signed, part.pending,
                   Len(part.signed) >= pkh.threshold)

(* ------------------------------ WASM interface -------------------------- *)
\* the loop over the notes: validates each condition and pushes one spend
RECURSIVE BuildSpends(_, _, _, _)
\* mutant: the conditions of the notes are not validated
RECURSIVE BuildSpends_unvalidated(_, _, _, _)
BuildSpends_unvalidated(ns, outs, i, spends) ==
  IF i >= Len(ns) THEN Ok(spends)
  ELSE LET dummy_tx == Transaction(<<>>, outs)
           hash == compute_spend_hash(i, dummy_tx)
       IN BuildSpends_unvalidated(ns, outs, i + 1,
                                  Append(spends, Spend(ns[i + 1], Seeds_new(hash))))

\* mutant: the hash is taken over the spends attached so far
RECURSIVE BuildSpends_over_spends(_, _, _, _)
BuildSpends_over_spends(ns, outs, i, spends) ==
  IF i >= Len(ns) THEN Ok(spends)
  ELSE IF PkhCondition_validate(ns[i + 1].lock.pkh).tag # "Ok"
       THEN PkhCondition_validate(ns[i + 1].lock.pkh)
  ELSE LET dummy_tx == Transaction(spends, outs)
           hash == compute_spend_hash(i, dummy_tx)
       IN BuildSpends_over_spends(ns, outs, i + 1,
                                  Append(spends, Spend(ns[i + 1], Seeds_new(hash))))

BuildSpends(ns, outs, i, spends) ==
  IF i >= Len(ns) THEN Ok(spends)
  ELSE IF PkhCondition_validate(ns[i + 1].lock.pkh).tag # "Ok"
       THEN PkhCondition_validate(ns[i + 1].lock.pkh)
  ELSE LET dummy_tx == Transaction(<<>>, outs)
           hash == compute_spend_hash(i, dummy_tx)
       IN BuildSpends(ns, outs, i + 1, Append(spends, Spend(ns[i + 1], Seeds_new(hash))))

\* mutant: the balance is asserted before the conditions are validated
build_transaction_balance_first(ns, outs) ==
  LET dummy_tx == Transaction(<<>>, outs)
      all == [k \in 1..Len(ns) |->
                Spend(ns[k], Seeds_new(compute_spend_hash(k - 1, dummy_tx)))]
      spends == BuildSpends(ns, outs, 0, <<>>)
  IN IF validate_balance(Transaction(all, outs)).tag # "Ok"
     THEN validate_balance(Transaction(all, outs))
     ELSE IF spends.tag # "Ok" THEN spends
     ELSE Ok(Transaction(spends.val, outs))

build_transaction(ns, outs) ==
  LET spends == BuildSpends(ns, outs, 0, <<>>) IN
  IF spends.tag # "Ok" THEN spends
  ELSE LET t == Transaction(spends.val, outs) IN
       IF validate_balance(t).tag # "Ok" THEN validate_balance(t)
       ELSE Ok(t)

get_spend_hash(t, spend_index) ==
  IF spend_index >= Len(t.spends) THEN Err(SpendIndexOutOfBounds)
  ELSE Ok(t.spends[spend_index + 1].seeds.message_hash)

\* mutant: records the signature without looking at the spend's pubkeys
add_signature_unchecked(t, spend_index, pubkey, signature) ==
  IF spend_index >= Len(t.spends) THEN Err(InvalidSpendIndex)
  ELSE Ok([t EXCEPT !.spends[spend_index + 1].seeds =
             Seeds_add_signature(@, pubkey, signature)])

\* mutant: a bad index is ignored and the transaction handed back as it is
add_signature_ignore_bad_index(t, spend_index, pubkey, signature) ==
  IF spend_index >= Len(t.spends) THEN Ok(t)
  ELSE LET spend == t.spends[spend_index + 1] IN
       IF \A j \in 1..Len(spend.note.lock.pkh.pubkeys) :
            spend.note.lock.pkh.pubkeys[j] # pubkey
       THEN Err(UnauthorizedSigner)
       ELSE Ok([t EXCEPT !.spends[spend_index + 1].seeds =
                  Seeds_add_signature(@, pubkey, signature)])

\* mutant: the spend's signature list is started afresh with the new entry
add_signature_fresh_list(t, spend_index, pubkey, signature) ==
  IF spend_index >= Len(t.spends) THEN Err(InvalidSpendIndex)
  ELSE LET spend == t.spends[spend_index + 1] IN
       IF \A j \in 1..Len(spend.note.lock.pkh.pubkeys) :
            spend.note.lock.pkh.pubkeys[j] # pubkey
       THEN Err(UnauthorizedSigner)
       ELSE Ok([t EXCEPT !.spends[spend_index + 1].seeds.signatures =
                  << <<pubkey, signature>> >>])

\* mutant: the entry is recorded in every spend whose condition lists the key
add_signature_every_spend(t, spend_index, pubkey, signature) ==
  IF spend_index >= Len(t.spends) THEN Err(InvalidSpendIndex)
  ELSE LET spend == t.spends[spend_index + 1] IN
       IF \A j \in 1..Len(spend.note.lock.pkh.pubkeys) :
            spend.note.lock.pkh.pubkeys[j] # pubkey
       THEN Err(UnauthorizedSigner)
       ELSE Ok([t EXCEPT !.spends =
                  [k \in 1..Len(@) |->
                     IF \E j \in 1..Len(@[k].note.lock.pkh.pubkeys) :
                          @[k].note.lock.pkh.pubkeys[j] = pubkey
                     THEN [@[k] EXCEPT !.seeds =
                             Seeds_add_signature(@, pubkey, signature)]
                     ELSE @[k]]])

add_signature(t, spend_index, pubkey, signature) ==
  IF spend_index >= Len(t.spends) THEN Err(InvalidSpendIndex)
  ELSE LET spend == t.spends[spend_index + 1] IN
       IF \A j \in 1..Len(spend.note.lock.pkh.pubkeys) :
            spend.note.lock.pkh.pubkeys[j] # pubkey
       THEN Err(UnauthorizedSigner)
       ELSE Ok([t EXCEPT !.spends[spend_index + 1].seeds =
                  Seeds_add_signature(@, pubkey, signature)])

get_spend_signing_status(t, spend_index) ==
  IF spend_index >= Len(t.spends) THEN Err(SpendIndexOutOfBounds)
  ELSE Ok(signing_status(spend_index, t))

\* mutant: the signature checks are left out
validate_transaction_balance_only(t) ==
  IF validate_balance(t).tag # "Ok" THEN validate_balance(t)
  ELSE Ok(ReadyForBroadcast)

validate_transaction(t) ==
  IF validate_balance(t).tag # "Ok" THEN validate_balance(t)
  ELSE IF validate_signatures(t).tag # "Ok" THEN validate_signatures(t)
  ELSE Ok(ReadyForBroadcast)

(* ------------------------------- inputs --------------------------------- *)
\* keys that appear in conditions, and one key that appears in none
PubKeys == {"A", "B"}
Outsider == "D"
SubmitKeys == PubKeys \cup {Outsider}
\* the (pubkey, signature) pairs a caller submits: the key "A" signs twice
Submissions == {<<"A", "s1">>, <<"A", "s2">>, <<"B", "s1">>, <<Outsider, "s1">>}
SpendIndices == 0..MaxNotes

SeqsUpTo(S, n) == UNION {[1..k -> S] : k \in 0..n}

TheLock == Lock(PkhCondition(1, <<"A">>))
OutputSet == {Output("r", 1, TheLock)}

\* notes a caller offers to build_transaction: three spendable notes and one
\* note for each way a condition can be invalid
ValidNotes ==
  { Note(NoteName("n", "a"), 1, Lock(PkhCondition(1, <<"A">>))),
    Note(NoteName("n", "b"), 2, Lock(PkhCondition(2, <<"A", "B">>))),
    Note(NoteName("n", "c"), MaxValue, Lock(PkhCondition(1, <<"B">>))) }
InvalidNotes ==
  { Note(NoteName("n", "x"), 1, Lock(PkhCondition(0, <<"A">>))),
    Note(NoteName("n", "y"), 1, Lock(PkhCondition(2, <<"A">>))),
    Note(NoteName("n", "z"), 1, Lock(PkhCondition(2, <<"A", "A">>))) }
NoteSet == ValidNotes \cup InvalidNotes

ValidIndices(t) == 0..(Len(t.spends) - 1)
NoCall == [op |-> "none"]
EmptyTx == Transaction(<<>>, <<>>)

(* -------------------------------- Init ---------------------------------- *)
Init ==
  /\ overflowChecks \in BOOLEAN
  /\ notes \in SeqsUpTo(NoteSet, MaxNotes)
  /\ outputs \in SeqsUpTo(OutputSet, MaxOutputs)
  /\ hasTx = FALSE
  /\ tx = EmptyTx
  /\ last = NoCall

(* ------------------------------- actions -------------------------------- *)
\* build_transaction(notes, outputs): the caller keeps the returned transaction
BuildTransaction ==
  /\ ~hasTx
  /\ LET res == build_transaction(notes, outputs) IN
     /\ last' = [op |-> "build_transaction", res |-> res]
     /\ hasTx' = (res.tag = "Ok")
     /\ tx' = IF res.tag = "Ok" THEN res.val ELSE tx
  /\ UNCHANGED <<overflowChecks, notes, outputs>>

GetSpendHash ==
  /\ hasTx
  /\ \E i \in SpendIndices :
       last' = [op |-> "get_spend_hash", spend_index |-> i, res |-> get_spend_hash(tx, i)]
  /\ UNCHANGED <<overflowChecks, notes, outputs, hasTx, tx>>

\* add_signature(tx, i, pk, sig): on success the caller replaces its
\* transaction by the returned one
AddSignature ==
  /\ hasTx
  /\ \E i \in SpendIndices, sub \in Submissions :
       LET pk == sub[1]
           sig == sub[2]
           res == add_signature(tx, i, pk, sig)
       IN
       /\ last' = [op |-> "add_signature", spend_index |-> i, pubkey |-> pk,
                   signature |-> sig, res |-> res,
                   \* whether the key already had an entry before the call
                   replaced |-> i < Len(tx.spends) /\ has_signature(tx.spends[i + 1].seeds, pk)]
       /\ tx' = IF res.tag = "Ok" THEN res.val ELSE tx
  /\ UNCHANGED <<overflowChecks, notes, outputs, hasTx>>

GetSpendSigningStatus ==
  /\ hasTx
  /\ \E i \in SpendIndices :
       last' = [op |-> "get_spend_signing_status", spend_index |-> i,
                res |-> get_spend_signing_status(tx, i)]
  /\ UNCHANGED <<overflowChecks, notes, outputs, hasTx, tx>>

ValidateTransaction ==
  /\ hasTx
  /\ last' = [op |-> "validate_transaction", res |-> validate_transaction(tx)]
  /\ UNCHANGED <<overflowChecks, notes, outputs, hasTx, tx>>

Next ==
  \/ BuildTransaction
  \/ GetSpendHash
  \/ AddSignature
  \/ GetSpendSigningStatus
  \/ ValidateTransaction

Spec == Init /\ [][Next]_vars

(* ------------------- Hashing of transactions being signed --------------- *)
\* compute_spend_hash(i, &tx): works on a clone, the borrowed transaction is
\* left as it is; any index is accepted
ComputeSpendHash ==
  /\ hasTx
  /\ \E i \in SpendIndices :
       last' = [op |-> "compute_spend_hash", spend_index |-> i,
                res |-> Ok(compute_spend_hash(i, tx))]
  /\ UNCHANGED <<overflowChecks, notes, outputs, hasTx, tx>>

NextHash ==
  \/ BuildTransaction
  \/ AddSignature
  \/ ComputeSpendHash

SpecHash == Init /\ [][NextHash]_vars

(* ------------------- transactions not made by build --------------------- *)
\* any deserialized Transaction may be passed to the operations: conditions
\* of every shape, signature lists with repeated keys and foreign signers
AnyConditions ==
  {PkhCondition(t, pks) : t \in 0..MaxThreshold, pks \in SeqsUpTo(PubKeys, MaxKeys)}
AnySignatures == SeqsUpTo(Submissions, 2)
AnyHash == compute_spend_hash(0, EmptyTx)
AnySpend(c, sigs) ==
  Spend(Note(NoteName("n", "a"), 1, Lock(c)),
        [message_hash |-> AnyHash, signatures |-> sigs])
AnyOutputs == SeqsUpTo({Output("r", 1, TheLock)}, MaxOutputs)

\* one spend of every shape
SingleSpendTxs ==
  {Transaction(<<AnySpend(c, sigs)>>, outs) :
     c \in AnyConditions, sigs \in AnySignatures, outs \in AnyOutputs}

\* several spends, each of one of the outcomes a spend can have in
\* validate_signatures
OutcomeSpends ==
  { AnySpend(PkhCondition(1, <<"A">>), << <<"A", "s1">> >>),
    AnySpend(PkhCondition(0, <<"A">>), << >>),
    AnySpend(PkhCondition(2, <<"A", "A">>), << <<"A", "s1">> >>),
    AnySpend(PkhCondition(2, <<"A", "B">>), << <<"A", "s1">> >>),
    AnySpend(PkhCondition(2, <<"A", "B">>), << <<Outsider, "s1">> >>),
    AnySpend(PkhCondition(1, <<"A">>), << <<Outsider, "s1">> >>) }
MultiSpendTxs ==
  {Transaction(sp, outs) : sp \in SeqsUpTo(OutcomeSpends, MaxNotes), outs \in AnyOutputs}

InitAny ==
  /\ overflowChecks \in BOOLEAN
  /\ notes = <<>>
  /\ outputs = <<>>
  /\ hasTx = TRUE
  /\ tx \in SingleSpendTxs \cup MultiSpendTxs
  /\ last = NoCall

\* Transaction::validate_signatures called on the transaction
ValidateSignatures ==
  /\ hasTx
  /\ last' = [op |-> "validate_signatures", res |-> validate_signatures(tx)]
  /\ UNCHANGED <<overflowChecks, notes, outputs, hasTx, tx>>

\* PkhCondition::validate called on the condition of a spend
ValidateCondition ==
  /\ hasTx
  /\ \E i \in ValidIndices(tx) :
       last' = [op |-> "PkhCondition::validate", spend_index |-> i,
                res |-> PkhCondition_validate(tx.spends[i + 1].note.lock.pkh)]
  /\ UNCHANGED <<overflowChecks, notes, outputs, hasTx, tx>>

NextAny ==
  \/ GetSpendHash
  \/ GetSpendSigningStatus
  \/ ValidateTransaction
  \/ ValidateSignatures
  \/ ValidateCondition

SpecAny == InitAny /\ [][NextAny]_vars

(* ------------------------------ vocabulary ------------------------------ *)
IndexOutOfBounds == {SpendIndexOutOfBounds, InvalidSpendIndex}
Called(op) == last.op = op
Succeeded(op) == last.op = op /\ last.res.tag = "Ok"
Failed(op, e) == last.op = op /\ last.res.tag = "Err" /\ last.res.err = e
PermittedKeys(t, i) ==
  {t.spends[i + 1].note.lock.pkh.pubkeys[k] :
     k \in 1..Len(t.spends[i + 1].note.lock.pkh.pubkeys)}
\* the positions of spend i's signature list that hold an entry for pk
EntriesFor(t, i, pk) ==
  {k \in 1..Len(t.spends[i + 1].seeds.signatures) :
     t.spends[i + 1].seeds.signatures[k][1] = pk}
\* the signatures recorded for pk in spend i
SignaturesFor(t, i, pk) ==
  {t.spends[i + 1].seeds.signatures[k][2] : k \in EntriesFor(t, i, pk)}
SignedKeys(t, i) == {pk \in SubmitKeys : EntriesFor(t, i, pk) # {}}

(* -------------------------------- C1 ------------------------------------ *)
\* C1: for the transaction the caller holds after a successful build and any
\* sequence of add_signature calls, get_spend_hash returns for every valid
\* spend index the value it returned on the freshly built transaction.
C1_HashUnchangedBySigning ==
  hasTx =>
    LET built == build_transaction(notes, outputs).val IN
    /\ Len(tx.spends) = Len(built.spends)
    /\ \A i \in ValidIndices(tx) : get_spend_hash(tx, i) = get_spend_hash(built, i)

\* both spends of a two-spend transaction carry signatures, one of them replaced
C1_Witness ==
  /\ hasTx
  /\ Succeeded("add_signature")
  /\ last.replaced
  /\ Len(tx.spends) = 2
  /\ \A i \in ValidIndices(tx) : SignedKeys(tx, i) # {}

(* -------------------------------- C2 ------------------------------------ *)
\* C2: in a transaction obtained from build_transaction and add_signature
\* calls every spend holds at most one entry per public key, and the entry of
\* a key carries the signature of the latest successful submission for it: a
\* successful add_signature(i, pk, sig) leaves exactly the entry (pk, sig) for
\* pk in spend i, and no other step changes the signature recorded for a key.
C2_OneEntryPerKeyLastWins ==
  /\ [](hasTx => \A i \in ValidIndices(tx), pk \in SubmitKeys :
                   Cardinality(EntriesFor(tx, i, pk)) <= 1)
  /\ [][hasTx =>
          \A i \in ValidIndices(tx'), pk \in SubmitKeys :
            IF /\ last'.op = "add_signature" /\ last'.res.tag = "Ok"
               /\ last'.spend_index = i /\ last'.pubkey = pk
            THEN /\ SignaturesFor(tx', i, pk) = {last'.signature}
                 /\ Cardinality(EntriesFor(tx', i, pk)) = 1
            ELSE \/ tx' = tx
                 \/ SignaturesFor(tx', i, pk) = SignaturesFor(tx, i, pk)]_vars

\* a key that already had an entry was submitted again with the signature "s2",
\* in a spend where the other key has signed too
C2_Witness ==
  /\ hasTx
  /\ Succeeded("add_signature")
  /\ last.replaced
  /\ last.signature = "s2"
  /\ SignedKeys(tx, last.spend_index) = {"A", "B"}
  /\ SignaturesFor(tx, last.spend_index, last.pubkey) = {"s2"}

(* -------------------------------- C3 ------------------------------------ *)
\* C3: add_signature with a valid spend index and a pubkey that is not among
\* the spend's condition pubkeys fails with UnauthorizedSigner (no transaction
\* is returned) and the caller's transaction is as before: the signing status
\* of every spend is unchanged.
C3_UnauthorizedSignerRejected ==
  [][(/\ last'.op = "add_signature"
      /\ last'.spend_index \in ValidIndices(tx)
      /\ last'.pubkey \notin PermittedKeys(tx, last'.spend_index))
     => /\ last'.res = Err(UnauthorizedSigner)
        /\ tx' = tx
        /\ \A j \in ValidIndices(tx) :
             get_spend_signing_status(tx', j) = get_spend_signing_status(tx, j)]_vars

\* the outsider's submission was refused on a spend that already has a signer
C3_Witness ==
  /\ hasTx
  /\ Failed("add_signature", UnauthorizedSigner)
  /\ last.pubkey = Outsider
  /\ SignedKeys(tx, last.spend_index) # {}

(* -------------------------------- C5 ------------------------------------ *)
AllComplete(t) ==
  \A i \in ValidIndices(t) : get_spend_signing_status(t, i).val.complete
IncompleteIndices(t) ==
  {i \in ValidIndices(t) : ~get_spend_signing_status(t, i).val.complete}

\* C5: for a transaction obtained from build_transaction and add_signature
\* calls, validate_transaction succeeds iff get_spend_signing_status reports
\* complete for every spend, and it fails with "insufficient signatures"
\* (for some incomplete spend) otherwise.
C5_ValidateIffAllComplete ==
  hasTx =>
    /\ validate_transaction(tx).tag = "Ok" <=> AllComplete(tx)
    /\ AllComplete(tx) => validate_transaction(tx) = Ok(ReadyForBroadcast)
    /\ ~AllComplete(tx) =>
         \E i \in IncompleteIndices(tx) :
           validate_transaction(tx) = Err(InsufficientSignatures(i))

\* validate_transaction succeeded on a two-spend transaction, one spend of
\* which needed two signers
C5_Witness ==
  /\ hasTx
  /\ Succeeded("validate_transaction")
  /\ Len(tx.spends) = 2
  /\ \E i \in ValidIndices(tx) : tx.spends[i + 1].note.lock.pkh.threshold = 2

(* -------------------------------- C6 ------------------------------------ *)
\* the sum of a sequence of values as a number, without a width
RECURSIVE MathSum(_)
MathSum(values) ==
  IF values = <<>> THEN 0 ELSE values[1] + MathSum(Tail(values))
NoteValues(ns) == [k \in 1..Len(ns) |-> ns[k].value]
SpendValues(t) == [k \in 1..Len(t.spends) |-> t.spends[k].note.value]
OutputValues(outs) == [k \in 1..Len(outs) |-> outs[k].value]
AllConditionsValid(ns) ==
  \A k \in 1..Len(ns) : PkhCondition_validate(ns[k].lock.pkh).tag = "Ok"
\* the transactions that differ from t in the value of one note or one output
SingleValueChanges(t) ==
  {[t EXCEPT !.spends[k].note.value = v] :
     k \in 1..Len(t.spends), v \in 0..MaxValue} \cup
  {[t EXCEPT !.outputs[k].value = v] :
     k \in 1..Len(t.outputs), v \in 0..MaxValue}

\* C6: a transaction returned by build_transaction has equal sums of note
\* values and output values; when the sums of the supplied notes and outputs
\* differ and every note condition is valid, build_transaction fails with
\* "Input value does not equal output value"; and validate_balance fails on a
\* built transaction in which one note or output value is changed.
C6_BuildBalanced ==
  /\ Succeeded("build_transaction") =>
       MathSum(SpendValues(last.res.val)) = MathSum(OutputValues(last.res.val.outputs))
  /\ (/\ Called("build_transaction")
      /\ AllConditionsValid(notes)
      /\ MathSum(NoteValues(notes)) # MathSum(OutputValues(outputs)))
     => last.res = Err(BalanceMismatch)
  /\ Succeeded("build_transaction") =>
       \A t \in SingleValueChanges(last.res.val) \ {last.res.val} :
         validate_balance(t).tag # "Ok"

(* -------------------------------- C8 ------------------------------------ *)
\* C8: for the transaction the caller holds and every spend index at or past
\* the number of spends, get_spend_hash, add_signature (for every pubkey,
\* permitted or not) and get_spend_signing_status return an error with an
\* index-out-of-bounds message; the stored result of such a call is that error.
C8_IndexOutOfBounds ==
  hasTx =>
    /\ \A i \in SpendIndices \ ValidIndices(tx) :
         /\ get_spend_hash(tx, i).tag = "Err"
         /\ get_spend_hash(tx, i).err \in IndexOutOfBounds
         /\ get_spend_signing_status(tx, i).tag = "Err"
         /\ get_spend_signing_status(tx, i).err \in IndexOutOfBounds
         /\ \A sub \in Submissions :
              /\ add_signature(tx, i, sub[1], sub[2]).tag = "Err"
              /\ add_signature(tx, i, sub[1], sub[2]).err \in IndexOutOfBounds
    /\ (/\ last.op \in {"get_spend_hash", "add_signature", "get_spend_signing_status"}
        /\ last.spend_index \notin ValidIndices(tx))
       => last.res.tag = "Err" /\ last.res.err \in IndexOutOfBounds

\* the outsider's submission to spend 0 of a transaction without spends was
\* refused for its index
C8_Witness ==
  /\ hasTx
  /\ Len(tx.spends) = 0
  /\ Failed("add_signature", InvalidSpendIndex)
  /\ last.spend_index = 0
  /\ last.pubkey = Outsider

(* -------------------------------- C9 ------------------------------------ *)
BuildInputs == SeqsUpTo(NoteSet, MaxNotes) \X SeqsUpTo(OutputSet, MaxOutputs)

\* C9: two successful builds whose inputs differ (in a note, an output or the
\* number of notes) give different hashes at every spend index valid in both.
C9_HashDependsOnSkeleton ==
  Succeeded("build_transaction") =>
    \A in \in BuildInputs \ {<<notes, outputs>>} :
      build_transaction(in[1], in[2]).tag = "Ok" =>
        \A i \in ValidIndices(tx) \cap ValidIndices(build_transaction(in[1], in[2]).val) :
          get_spend_hash(tx, i) # get_spend_hash(build_transaction(in[1], in[2]).val, i)

(* -------------------------------- C4 ------------------------------------ *)
Range(seq) == {seq[k] : k \in 1..Len(seq)}
ConditionOf(t, i) == t.spends[i + 1].note.lock.pkh
\* the keys that have an entry in the signature list of spend i
RecordedSigners(t, i) ==
  {t.spends[i + 1].seeds.signatures[k][1] :
     k \in 1..Len(t.spends[i + 1].seeds.signatures)}

\* C4: for every transaction and valid spend index, signed and pending of
\* get_spend_signing_status are the condition's pubkeys with, respectively
\* without, a recorded signature, each in the condition's order; they do not
\* overlap, together they are the condition's pubkeys, and complete is true
\* iff signed has at least threshold entries.
C4_StatusPartitionsKeys ==
  hasTx =>
    \A i \in ValidIndices(tx) :
      LET st == get_spend_signing_status(tx, i)
          pkh == ConditionOf(tx, i)
      IN /\ st.tag = "Ok"
         /\ st.val.spend_index = i
         /\ st.val.threshold = pkh.threshold
         /\ st.val.signed =
              SelectSeq(pkh.pubkeys, LAMBDA k : k \in RecordedSigners(tx, i))
         /\ st.val.pending =
              SelectSeq(pkh.pubkeys, LAMBDA k : k \notin RecordedSigners(tx, i))
         /\ Range(st.val.signed) \cap Range(st.val.pending) = {}
         /\ Range(st.val.signed) \cup Range(st.val.pending) = Range(pkh.pubkeys)
         /\ Len(st.val.signed) + Len(st.val.pending) = Len(pkh.pubkeys)
         /\ st.val.complete <=> Len(st.val.signed) >= pkh.threshold
         /\ (Called("get_spend_signing_status") /\ last.spend_index = i) => last.res = st

\* the status of a spend was fetched whose second key has signed and whose
\* first has not, next to a signer outside the condition
C4_Witness ==
  /\ hasTx
  /\ Succeeded("get_spend_signing_status")
  /\ last.res.val.signed = <<"A">>
  /\ last.res.val.pending = <<"B">>
  /\ last.res.val.complete
  /\ Outsider \in RecordedSigners(tx, last.spend_index)

(* -------------------------------- C7 ------------------------------------ *)
StructurallyValid(pkh) ==
  /\ 1 <= pkh.threshold
  /\ pkh.threshold <= Len(pkh.pubkeys)
  /\ \A j, k \in 1..Len(pkh.pubkeys) : j # k => pkh.pubkeys[j] # pkh.pubkeys[k]

\* C7: PkhCondition::validate succeeds iff 1 <= threshold <= |pubkeys| and
\* the pubkeys are pairwise distinct; otherwise its error is "Threshold must
\* be >= 1" when the threshold is 0, else "Threshold exceeds number of
\* pubkeys" when the threshold is larger than the number of entries, else
\* "Duplicate public key in multisig set"; the call leaves the condition
\* (the transaction holding it) as it was.
C7_ConditionValidation ==
  /\ [](hasTx =>
         \A i \in ValidIndices(tx) :
           LET pkh == ConditionOf(tx, i)
               res == PkhCondition_validate(pkh)
           IN /\ res.tag = "Ok" <=> StructurallyValid(pkh)
              /\ res.tag \in {"Ok", "Err"}
              /\ res.tag = "Err" =>
                   res.err = IF pkh.threshold = 0 THEN InvalidThreshold
                             ELSE IF pkh.threshold > Len(pkh.pubkeys)
                                  THEN ThresholdExceedsKeys
                                  ELSE DuplicatePublicKey
              /\ (Called("PkhCondition::validate") /\ last.spend_index = i)
                   => last.res = res)
  /\ [][last'.op = "PkhCondition::validate" => tx' = tx]_vars

\* validate refused a condition for its repeated key, the threshold being in
\* range
C7_Witness ==
  /\ hasTx
  /\ Failed("PkhCondition::validate", DuplicatePublicKey)
  /\ ConditionOf(tx, last.spend_index).threshold = 2
  /\ Len(ConditionOf(tx, last.spend_index).pubkeys) = 2

(* -------------------------------- C10 ----------------------------------- *)
ConditionFails(t, i) == ~StructurallyValid(ConditionOf(t, i))
TooFewSignatures(t, i) ==
  Len(t.spends[i + 1].seeds.signatures) < ConditionOf(t, i).threshold
ForeignSigner(t, i) == ~(RecordedSigners(t, i) \subseteq Range(ConditionOf(t, i).pubkeys))
FailingSpends(t) ==
  {i \in ValidIndices(t) : ConditionFails(t, i) \/ TooFewSignatures(t, i) \/ ForeignSigner(t, i)}
LowestFailing(t) == CHOOSE i \in FailingSpends(t) : \A j \in FailingSpends(t) : i <= j

\* C10: validate_signatures returns the error of the lowest-index failing
\* spend; within that spend a condition-validation failure comes first,
\* then insufficient signatures (fewer entries than the threshold), then an
\* invalid signer (a recorded signer outside the pubkeys); it succeeds only
\* if no spend fails any of the three checks.
C10_FirstFailingSpendFirstCheck ==
  hasTx =>
    LET res == validate_signatures(tx) IN
    /\ res.tag = "Ok" <=> FailingSpends(tx) = {}
    /\ res.tag \in {"Ok", "Err"}
    /\ res.tag = "Err" =>
         LET i == LowestFailing(tx) IN
         res = IF ConditionFails(tx, i) THEN PkhCondition_validate(ConditionOf(tx, i))
               ELSE IF TooFewSignatures(tx, i) THEN Err(InsufficientSignatures(i))
               ELSE Err(InvalidSigner(i))
    /\ Called("validate_signatures") => last.res = res

\* validate_signatures reported too few signatures for spend 0 although that
\* spend also has a foreign signer and spend 1 has an invalid condition
C10_Witness ==
  /\ hasTx
  /\ Len(tx.spends) = 2
  /\ Failed("validate_signatures", InsufficientSignatures(0))
  /\ ForeignSigner(tx, 0)
  /\ ConditionFails(tx, 1)


(* -------------------------------- C11 ----------------------------------- *)
\* the messages of PkhCondition::validate, which name no spend
ConditionMessages == {InvalidThreshold, ThresholdExceedsKeys, DuplicatePublicKey}

\* C11: when validate_signatures fails because the condition of spend i is
\* structurally invalid, the returned error carries the spend index i as the
\* "Spend i has ..." errors do: it is not the bare message of
\* PkhCondition::validate, which is the same for every index.
C11_ConditionErrorTagged ==
  (/\ hasTx
   /\ Called("validate_signatures")
   /\ FailingSpends(tx) # {}
   /\ ConditionFails(tx, LowestFailing(tx)))
  => /\ last.res.tag = "Err"
     /\ last.res.err \notin ConditionMessages


(* -------------------------------- C12 ----------------------------------- *)
InvalidNoteIndices(ns) ==
  {k \in 1..Len(ns) : ~StructurallyValid(ns[k].lock.pkh)}
LowestInvalidNote(ns) ==
  CHOOSE k \in InvalidNoteIndices(ns) : \A j \in InvalidNoteIndices(ns) : k <= j

\* C12: build_transaction validates the note conditions in note order before
\* the balance: if any note's condition is invalid it fails with the
\* condition error of the lowest-index invalid note, balanced or not, and no
\* transaction is produced; the balance error is returned only when every
\* note condition is valid.
C12_ConditionsBeforeBalance ==
  Called("build_transaction") =>
    /\ InvalidNoteIndices(notes) # {} =>
         /\ last.res = PkhCondition_validate(notes[LowestInvalidNote(notes)].lock.pkh)
         /\ last.res.tag = "Err"
         /\ ~hasTx
    /\ (last.res.tag = "Err" /\ last.res.err = BalanceMismatch) =>
         InvalidNoteIndices(notes) = {}

\* build refused two unbalanced notes for the first one's threshold over its
\* keys, the second one's condition being invalid in another way
C12_Witness ==
  /\ Failed("build_transaction", ThresholdExceedsKeys)
  /\ Len(notes) = 2
  /\ notes[2].lock.pkh.threshold = 0
  /\ MathSum(NoteValues(notes)) # MathSum(OutputValues(outputs))
  /\ ~hasTx


(* -------------------------------- C13 ----------------------------------- *)
\* the entries of a signature list that are not for pk, in their order
RECURSIVE WithoutKey(_, _)
WithoutKey(sigs, pk) ==
  IF sigs = <<>> THEN <<>>
  ELSE IF Head(sigs)[1] = pk THEN WithoutKey(Tail(sigs), pk)
       ELSE <<Head(sigs)>> \o WithoutKey(Tail(sigs), pk)

C14_SignedKeysNeverShrink ==
  [][hasTx =>
       \/ tx' = tx
       \/ /\ Len(tx'.spends) = Len(tx.spends)
          /\ \A i \in ValidIndices(tx) :
               LET before == get_spend_signing_status(tx, i).val
                   after == get_spend_signing_status(tx', i).val
               IN /\ SignedKeys(tx, i) \subseteq SignedKeys(tx', i)
                  /\ Range(before.signed) \subseteq Range(after.signed)
                  /\ before.complete => after.complete
          /\ validate_transaction(tx).tag = "Ok" =>
               validate_transaction(tx') = Ok(ReadyForBroadcast)]_vars

\* a two-spend transaction that still validates after a refused submission
C14_Witness ==
  /\ hasTx
  /\ Called("add_signature")
  /\ last.res.tag = "Err"
  /\ Len(tx.spends) = 2
  /\ validate_transaction(tx) = Ok(ReadyForBroadcast)


(* -------------------------------- C15 ----------------------------------- *)
\* C15: a successful add_signature on spend index i changes only the signature
\* list of spend i: the note, lock and message_hash of every spend, the
\* signature lists of the spends j # i, the number and order of the spends and
\* all the outputs are in the returned transaction as they were.
C15_OnlyTargetSignaturesChange ==
  [][(last'.op = "add_signature" /\ last'.res.tag = "Ok") =>
       LET i == last'.spend_index IN
       /\ last'.res.val = tx'
       /\ tx'.outputs = tx.outputs
       /\ Len(tx'.spends) = Len(tx.spends)
       /\ \A j \in ValidIndices(tx) :
            /\ tx'.spends[j + 1].note = tx.spends[j + 1].note
            /\ tx'.spends[j + 1].seeds.message_hash = tx.spends[j + 1].seeds.message_hash
            /\ j # i => tx'.spends[j + 1].seeds.signatures
                          = tx.spends[j + 1].seeds.signatures]_vars

\* key "A" signed spend 1 of a two-spend transaction whose spend 0 lists "A"
\* too and still has no signature
C15_Witness ==
  /\ hasTx
  /\ Succeeded("add_signature")
  /\ last.spend_index = 1
  /\ last.pubkey = "A"
  /\ Len(tx.spends) = 2
  /\ "A" \in PermittedKeys(tx, 0)
  /\ tx.spends[1].seeds.signatures = <<>>
  /\ "A" \in SignedKeys(tx, 1)


(* -------------------------------- C16 ----------------------------------- *)
\* C16: compute_spend_hash(i, tx) is the digest of the payload made of i and
\* the transaction with the signature list of every spend cleared and the
\* message_hash fields kept: the transaction being signed and the freshly
\* built one, which differ only in signature lists, have the same digest for
\* every index, and the transaction handed in is not modified.
C16_HashClearsAllSignatures ==
  /\ [](Called("compute_spend_hash") =>
          LET built == build_transaction(notes, outputs).val IN
          /\ last.res.val = compute_spend_hash(last.spend_index, built)
          /\ last.res.val = Sha256Hex(SigningPayload(last.spend_index, built)))
  /\ [][last'.op = "compute_spend_hash" => tx' = tx]_vars

\* the digest was taken for spend 0 of a two-spend transaction in which both
\* spends carry signatures
C16_Witness ==
  /\ hasTx
  /\ Called("compute_spend_hash")
  /\ last.spend_index = 0
  /\ Len(tx.spends) = 2
  /\ \A i \in ValidIndices(tx) : tx.spends[i + 1].seeds.signatures # <<>>


(* -------------------------------- C17 ----------------------------------- *)
\* the other note sequences that build successfully with the same outputs
OtherBuilds ==
  {ns \in SeqsUpTo(NoteSet, MaxNotes) \ {notes} :
     build_transaction(ns, outputs).tag = "Ok"}

\* C17: the message_hash build_transaction stores for spend i is the digest of
\* (i, the transaction with no spends and the supplied outputs): it depends
\* only on i and the outputs, so distinct spend indices of one built
\* transaction have distinct hashes, and a build from other notes with the
\* same outputs has the same hash at every index the two share.
C17_BuildHashOverOutputsOnly ==
  Succeeded("build_transaction") =>
    /\ \A i \in ValidIndices(tx) :
         /\ tx.spends[i + 1].seeds.message_hash
              = Sha256Hex(SigningPayload(i, Transaction(<<>>, outputs)))
         /\ \A j \in ValidIndices(tx) \ {i} :
              tx.spends[j + 1].seeds.message_hash # tx.spends[i + 1].seeds.message_hash
    /\ \A ns \in OtherBuilds :
         \A i \in ValidIndices(tx) \cap ValidIndices(build_transaction(ns, outputs).val) :
           build_transaction(ns, outputs).val.spends[i + 1].seeds.message_hash
             = tx.spends[i + 1].seeds.message_hash

\* a two-spend transaction was built, and other notes build with its outputs
C17_Witness ==
  /\ Succeeded("build_transaction")
  /\ Len(tx.spends) = 2
  /\ \E ns \in OtherBuilds : Len(ns) = 2


(* -------------------------------- C18 ----------------------------------- *)
\* C18: for every transaction, built or not, validate_transaction succeeds
\* only if every spend has recorded signatures from at least threshold
\* distinct keys of its condition, that is only if get_spend_signing_status
\* reports complete for every spend, and signature_count is the number of
\* distinct keys recorded, not the number of list entries.
C18_ValidateNeedsDistinctSigners ==
  hasTx =>
    /\ \A i \in ValidIndices(tx) :
         signature_count(tx.spends[i + 1].seeds) = Cardinality(SignedKeys(tx, i))
    /\ Succeeded("validate_transaction") =>
         \A i \in ValidIndices(tx) :
           /\ Cardinality(SignedKeys(tx, i) \cap PermittedKeys(tx, i))
                >= ConditionOf(tx, i).threshold
           /\ get_spend_signing_status(tx, i).val.complete


(* -------------------------------- C19 ----------------------------------- *)
\* C19: in every transaction reached from a successful build_transaction by
\* add_signature calls, every recorded signer of a spend is one of the spend's
\* condition pubkeys and every spend's condition is structurally valid; hence
\* validate_transaction on it never fails with InvalidSigner or a condition
\* error: it succeeds or fails with InsufficientSignatures.
C19_BuiltTransactionsWellFormed ==
  hasTx =>
    /\ \A i \in ValidIndices(tx) :
         /\ RecordedSigners(tx, i) \subseteq PermittedKeys(tx, i)
         /\ StructurallyValid(ConditionOf(tx, i))
         /\ PkhCondition_validate(ConditionOf(tx, i)) = Ok(Unit)
    /\ \/ validate_transaction(tx) = Ok(ReadyForBroadcast)
       \/ \E i \in ValidIndices(tx) :
            validate_transaction(tx) = Err(InsufficientSignatures(i))
    /\ Called("validate_transaction") => last.res = validate_transaction(tx)

\* validate_transaction refused a two-spend transaction for the missing
\* signatures of spend 1, both spends having a recorded signer
C19_Witness ==
  /\ hasTx
  /\ Failed("validate_transaction", InsufficientSignatures(1))
  /\ Len(tx.spends) = 2
  /\ SignedKeys(tx, 0) # {}
  /\ SignedKeys(tx, 1) # {}


(* -------------------------------- C20 ----------------------------------- *)
\* C20: validate_balance, and with it build_transaction and
\* validate_transaction, succeeds only when the mathematical sum of the note
\* values equals the mathematical sum of the output values, also when a true
\* sum exceeds the largest 64-bit value: no transaction is accepted as
\* balanced because a sum wrapped around, and the call does not abort.
C20_BalanceOverMathSums ==
  /\ Called("build_transaction") =>
       /\ last.res.tag # "Panic"
       /\ last.res.tag = "Ok" =>
            MathSum(NoteValues(notes)) = MathSum(OutputValues(outputs))
  /\ (hasTx /\ Called("validate_transaction")) =>
       /\ last.res.tag # "Panic"
       /\ validate_balance(tx).tag # "Panic"
       /\ validate_balance(tx).tag = "Ok" =>
            MathSum(SpendValues(tx)) = MathSum(OutputValues(tx.outputs))

====
